---------------------------- MODULE Spec2Model ----------------------------
(***************************************************************************)
(* A model of src/project/main.py: the POST /generate-tattoo handler       *)
(* (generate_tattoo), the "generated images" directory it writes to, and   *)
(* the server workers that run the handler.                                *)
(*                                                                         *)
(* The handler is an `async def` whose only awaits are the two upload      *)
(* reads, so inside one event loop everything after them runs without      *)
(* interruption.  The source does not start the server; it only exports    *)
(* `app`.  Served by several worker processes (uvicorn --workers N,        *)
(* gunicorn), the handlers of different workers interleave at the level of *)
(* file-system calls, and the only state they share is the output          *)
(* directory.  A worker is therefore modelled as a process with a program  *)
(* counter; the steps are cut at the awaits, at the calls that can raise   *)
(* and where the handler touches the directory (os.listdir at line 140,    *)
(* gen_img.save at line 151).                                              *)
(*                                                                         *)
(* Strings whose characters the code inspects (file names) are sequences   *)
(* of one-character strings; byte strings are sequences of 0..255.         *)
(***************************************************************************)
EXTENDS Integers, Sequences, FiniteSets, TLC

VARIABLES
    dirExists,  \* whether "generated images" exists
    files,      \* the directory: file name -> file content (bytes)
    pc,         \* per worker: position in the handler
    req,        \* per worker: the request being handled
    loc,        \* per worker: the handler's local variables
    resp,       \* per worker: the response of the last finished request
    log,        \* history: the saves made by the handler, in order
    nreq,       \* history: number of requests received
    nrem        \* history: number of external removals

vars == <<dirExists, files, pc, req, loc, resp, log, nreq, nrem>>

(***************************************************************************)
(* Bounds of the model.                                                    *)
(***************************************************************************)
MaxRequests == 2
MaxRemovals == 1

-----------------------------------------------------------------------------
(***************************************************************************)
(* Sequence helpers.                                                       *)
(***************************************************************************)
RECURSIVE SetToSeq(_)
SetToSeq(S) == IF S = {} THEN <<>>
               ELSE LET x == CHOOSE y \in S : TRUE IN <<x>> \o SetToSeq(S \ {x})

-----------------------------------------------------------------------------
(***************************************************************************)
(* Python string operations used on file names (lines 140-150).            *)
(***************************************************************************)
PREFIX == <<"g", "e", "n", "e", "r", "a", "t", "e", "d", "_", "i", "m", "a", "g", "e">>
DOTPNG == <<".", "p", "n", "g">>

AsciiDigits == <<"0", "1", "2", "3", "4", "5", "6", "7", "8", "9">>

\* A character for which str.isdigit() is true and which int() rejects
\* (U+00B2, superscript two).
SUP2 == "SUPERSCRIPT TWO"

StartsWith(s, p) == Len(s) >= Len(p) /\ SubSeq(s, 1, Len(p)) = p

EndsWith(s, p) == Len(s) >= Len(p) /\ SubSeq(s, Len(s) - Len(p) + 1, Len(s)) = p

LowerChar(c) ==
    CASE c = "P" -> "p"
      [] c = "N" -> "n"
      [] c = "G" -> "g"
      [] c = "T" -> "t"
      [] c = "X" -> "x"
      [] OTHER -> c

Lower(s) == [i \in 1..Len(s) |-> LowerChar(s[i])]

\* fn[len("generated_image"):-4]
Middle(fn) == SubSeq(fn, Len(PREFIX) + 1, Len(fn) - 4)

IsDigitChar(c) == c = SUP2 \/ \E i \in 1..10 : AsciiDigits[i] = c

\* str.isdigit(): non-empty and every character a digit
IsDigit(s) == s # <<>> /\ \A i \in 1..Len(s) : IsDigitChar(s[i])

\* int() accepts decimal digits only
IntAccepts(s) == s # <<>> /\ \A i \in 1..Len(s) : \E d \in 1..10 : AsciiDigits[d] = s[i]

DigitVal(c) == (CHOOSE d \in 1..10 : AsciiDigits[d] = c) - 1

RECURSIVE PyInt(_)
PyInt(s) == IF s = <<>> THEN 0
            ELSE 10 * PyInt(SubSeq(s, 1, Len(s) - 1)) + DigitVal(s[Len(s)])

\* f"{next_idx}": the decimal digits of a non-negative integer
RECURSIVE Str(_)
Str(n) == IF n < 10 THEN <<AsciiDigits[n + 1]>>
          ELSE Str(n \div 10) \o <<AsciiDigits[(n % 10) + 1]>>

\* os.path.join(generated_dir, f"generated_image{next_idx}.png"), as a name
\* inside the directory
OutputName(idx) == PREFIX \o Str(idx) \o DOTPNG

-----------------------------------------------------------------------------
(***************************************************************************)
(* base64.b64encode(...).decode() (lines 62, 155, 158).                    *)
(***************************************************************************)
B64Alphabet ==
    << "A", "B", "C", "D", "E", "F", "G", "H", "I", "J", "K", "L", "M", "N", "O", "P",
       "Q", "R", "S", "T", "U", "V", "W", "X", "Y", "Z", "a", "b", "c", "d", "e", "f",
       "g", "h", "i", "j", "k", "l", "m", "n", "o", "p", "q", "r", "s", "t", "u", "v",
       "w", "x", "y", "z", "0", "1", "2", "3", "4", "5", "6", "7", "8", "9", "+", "/" >>

B64Char(n) == B64Alphabet[n + 1]

RECURSIVE B64Encode(_)
B64Encode(b) ==
    IF Len(b) = 0 THEN <<>>
    ELSE IF Len(b) = 1 THEN
        << B64Char(b[1] \div 4), B64Char((b[1] % 4) * 16), "=", "=" >>
    ELSE IF Len(b) = 2 THEN
        << B64Char(b[1] \div 4),
           B64Char((b[1] % 4) * 16 + b[2] \div 16),
           B64Char((b[2] % 16) * 4), "=" >>
    ELSE
        << B64Char(b[1] \div 4),
           B64Char((b[1] % 4) * 16 + b[2] \div 16),
           B64Char((b[2] % 16) * 4 + b[3] \div 64),
           B64Char(b[3] % 64) >> \o B64Encode(SubSeq(b, 4, Len(b)))

-----------------------------------------------------------------------------
(***************************************************************************)
(* PIL, as far as the handler depends on it.  Image.open recognises a      *)
(* file by its signature; an image is its format and its pixel data;       *)
(* saving as PNG writes the PNG signature and the pixel data.              *)
(***************************************************************************)
PngSig == <<137, 80>>
JpegSig == <<255, 216>>

\* Image.open(BytesIO(data)) succeeds
CanOpen(data) == StartsWith(data, PngSig) \/ StartsWith(data, JpegSig)

\* Image.open(BytesIO(data)), where CanOpen(data)
ImageOpen(data) ==
    [format |-> IF StartsWith(data, PngSig) THEN "PNG" ELSE "JPEG",
     pixels |-> SubSeq(data, 3, Len(data))]

NoImage == [format |-> "none", pixels |-> <<>>]

\* img.save(buffer, "PNG") / img.save("....png")
SavePng(img) == PngSig \o img.pixels

-----------------------------------------------------------------------------
(***************************************************************************)
(* Values.  A Python None is NoneVal; Some(v) is a value that is not None. *)
(***************************************************************************)
NoneVal == [some |-> FALSE]
Some(v) == [some |-> TRUE, val |-> v]

\* An UploadFile, or its absence (present = FALSE).
NoUpload == [present |-> FALSE, readable |-> FALSE, data |-> <<>>]
Upload(readable, data) == [present |-> TRUE, readable |-> readable, data |-> data]

PngBytes == PngSig \o <<1>>
JpegBytes == JpegSig \o <<2>>
JunkBytes == <<7>>

\* A part of the API's response.  text = <<>> stands for a text that is None
\* or "" (the handler tests its truth only); inline FALSE for inline_data
\* None; hasData FALSE for inline_data.data None.
Part(text, inline, hasData, data) ==
    [text |-> text, inline |-> inline, hasData |-> hasData, data |-> data]
TextPart(t) == Part(t, FALSE, FALSE, <<>>)
ImagePart(data) == Part(<<>>, TRUE, TRUE, data)
NoDataPart == Part(<<>>, TRUE, FALSE, <<>>)
EmptyPart == Part(<<>>, FALSE, FALSE, <<>>)

\* Exceptions; str(e) is the message.
Exc(type, msg) == [type |-> type, msg |-> msg]
NoExc == Exc("none", "")
ReadError == Exc("OSError", "upload could not be read")
UnidentifiedImageError == Exc("UnidentifiedImageError", "cannot identify image file")
ApiError == Exc("APIError", "generate_content failed")
TemplateError == Exc("TemplateError", "index.html could not be rendered")
StrOf(e) == e.msg

-----------------------------------------------------------------------------
(***************************************************************************)
(* The prompt (lines 64-98).  A line is the sequence of its pieces (an     *)
(* f-string is its literal followed by the field's value); "" has none.    *)
(***************************************************************************)
PreambleLines ==
    << <<"You generate images of tattoos overlayed on skin of submitted images.">>,
       <<"Based on the provided input data, create a tattoo design that fits naturally on the body part shown.">>,
       <<"Input data:">>,
       <<"- Photo: An attached image of a body part (can be a hand, arm, leg, face, etc.)">> >>

ReferenceLine ==
    <<"- Reference Image: An attached image that serves as the inspiration for the tattoo design. Use it as the primary reference for style/subject where appropriate.">>

ThemeGeneralLine(theme) == <<"- Theme (general description of tattoo): ", theme>>

ThemeSupplementaryLine(theme) ==
    <<"- Theme (supplementary details for the tattoo based off the chosen reference image): ", theme>>

StyleLine(style) == <<"- Style (artistic style of tattoo): ", style>>

ColorModeLine(color_mode) ==
    <<"- Color Mode (examples: black and white, rainbow color, monochrome, etc.): ", color_mode>>

PhysicalAttributesLine(pa) == <<"- Physical Attributes (size/placement): ", pa>>

NoTextLine ==
    <<"Do not generate any text in your response. Your response should only consist of a generated image.">>

NoModifyLine == <<"Do not modify the original image except to add the tattoo design.">>

\* `if s:` for a string
Truthy(s) == s # ""

\* A variant of ThemeLines that words the theme line the same with and
\* without a reference image.
ThemeLinesGeneralOnly(hasReference, theme) ==
    IF Truthy(theme) THEN <<ThemeGeneralLine(theme)>> ELSE <<>>

ThemeLines(hasReference, theme) ==
    IF Truthy(theme)
    THEN IF ~hasReference THEN <<ThemeGeneralLine(theme)>>
         ELSE <<ThemeSupplementaryLine(theme)>>
    ELSE <<>>

BuildLines(hasReference, theme, style, color_mode, physical_attributes) ==
    PreambleLines
    \o (IF hasReference THEN <<ReferenceLine>> ELSE <<>>)
    \o ThemeLines(hasReference, theme)
    \o (IF Truthy(style) THEN <<StyleLine(style)>> ELSE <<>>)
    \o (IF Truthy(color_mode) THEN <<ColorModeLine(color_mode)>> ELSE <<>>)
    \o (IF Truthy(physical_attributes)
        THEN <<PhysicalAttributesLine(physical_attributes)>> ELSE <<>>)
    \o << <<>>, NoTextLine, NoModifyLine >>

\* "\n".join(lines)
RECURSIVE JoinLines(_)
JoinLines(lines) ==
    IF lines = <<>> THEN <<>>
    ELSE IF Len(lines) = 1 THEN lines[1]
    ELSE lines[1] \o <<"\n">> \o JoinLines(Tail(lines))

BuildPrompt(r) ==
    JoinLines(BuildLines(r.reference.present, r.theme, r.style, r.color_mode,
                         r.physical_attributes))

-----------------------------------------------------------------------------
(***************************************************************************)
(* The content list (lines 101-111).                                       *)
(***************************************************************************)
TextContent(prompt) == [kind |-> "text", text |-> prompt, image |-> NoImage]
ImageContent(img) == [kind |-> "image", text |-> <<>>, image |-> img]

\* reference.read() and Image.open both succeed
ReferenceLoads(reference) == reference.readable /\ CanOpen(reference.data)

\* A variant of AppendReference that puts the reference image before the
\* photo.
AppendReferenceBeforePhoto(contents, reference) ==
    IF reference.present /\ ReferenceLoads(reference)
    THEN <<contents[1], ImageContent(ImageOpen(reference.data)), contents[2]>>
    ELSE contents

AppendReference(contents, reference) ==
    IF reference.present /\ ReferenceLoads(reference)
    THEN Append(contents, ImageContent(ImageOpen(reference.data)))
    ELSE contents

-----------------------------------------------------------------------------
(***************************************************************************)
(* The index of the next file (lines 139-150).                             *)
(***************************************************************************)
\* os.listdir: the names, in an order the code does not depend on
Listing(fs) == SetToSeq(DOMAIN fs)

\* A variant of Matches that compares the extension as it is written.
MatchesCaseSensitive(f) == StartsWith(f, PREFIX) /\ EndsWith(f, DOTPNG)

Matches(f) == StartsWith(f, PREFIX) /\ EndsWith(Lower(f), DOTPNG)

Existing(listing) == SelectSeq(listing, Matches)

\* int(name) raises ValueError for some name that passed isdigit()
ScanRaises(existing) ==
    \E i \in 1..Len(existing) :
        IsDigit(Middle(existing[i])) /\ ~IntAccepts(Middle(existing[i]))

RECURSIVE MaxIdxFrom(_, _)
MaxIdxFrom(existing, max_idx) ==
    IF existing = <<>> THEN max_idx
    ELSE LET name == Middle(Head(existing))
         IN  MaxIdxFrom(Tail(existing),
                        IF IsDigit(name) /\ PyInt(name) > max_idx
                        THEN PyInt(name) ELSE max_idx)

\* A variant of NextIdx that counts the matching files instead of taking the
\* largest index.
NextIdxByCount(existing) == Len(existing) + 1

NextIdx(existing) == MaxIdxFrom(existing, 0) + 1

\* A variant of WriteFile that creates the file exclusively: an existing
\* file is left as it is.
WriteFileExclusive(fs, name, data) ==
    [f \in DOMAIN fs \cup {name} |-> IF f \in DOMAIN fs THEN fs[f] ELSE data]

\* gen_img.save(output_path): creates the file, or truncates and rewrites it
WriteFile(fs, name, data) ==
    [f \in DOMAIN fs \cup {name} |-> IF f = name THEN data ELSE fs[f]]

\* `img_data or b""`
OrEmpty(part) == IF part.hasData THEN part.data ELSE <<>>

-----------------------------------------------------------------------------
(***************************************************************************)
(* Responses.                                                              *)
(***************************************************************************)
NoResponse == [kind |-> "none"]

\* FastAPI's answer to a request that lacks a required field: the handler
\* is not called.
ValidationResponse == [kind |-> "validation", status |-> 422]

JsonResponse(generated_text, image_base64) ==
    [kind |-> "json", status |-> 200,
     generated_text |-> generated_text, image_base64 |-> image_base64]

ResultPage(r, l) ==
    [kind |-> "html", status |-> 200,
     error |-> NoneVal,
     result |-> Some([uploaded_image_base64 |-> l.uploaded_image_base64,
                      generated_image_base64 |-> l.generated_image_base64,
                      style |-> r.style,
                      theme |-> r.theme,
                      color_mode |-> r.color_mode,
                      size |-> r.physical_attributes])]

\* A variant of ErrorPage that shows the exception's type, not its text.
ErrorPageWithType(e) ==
    [kind |-> "html", status |-> 200, error |-> Some(e.type), result |-> NoneVal]

ErrorPage(e) ==
    [kind |-> "html", status |-> 200, error |-> Some(StrOf(e)), result |-> NoneVal]

\* An exception that leaves the handler: the server answers 500.
Fault(e) == [kind |-> "fault", status |-> 500, exc |-> e]

\* A variant of WantsJson that compares the whole header.
WantsJsonExactly(accept) == accept = <<"application/json">>

\* request.headers.get("accept", ""): the header as the sequence of its
\* pieces, <<>> when absent; `"application/json" in accept`
WantsJson(accept) == \E i \in 1..Len(accept) : accept[i] = "application/json"

-----------------------------------------------------------------------------
(***************************************************************************)
(* The handler's local variables, before line 54.                          *)
(***************************************************************************)
LocInit ==
    [uploaded_image_base64 |-> <<>>,
     prompt |-> <<>>,
     contents |-> <<>>,
     sent |-> NoneVal,          \* history: the contents generate_content got
     parts |-> <<>>,
     i |-> 1,                   \* the part the loop of line 123 is at
     generated_text |-> <<>>,
     generated_image_base64 |-> NoneVal,
     gen_img |-> NoImage,
     next_idx |-> 0,
     exc |-> NoExc,
     scanAt |-> 0,              \* history: Len(log) when the directory was listed
     seen |-> {}]               \* history: indices of the handler's files listed

NoRequest ==
    [photo |-> NoUpload, reference |-> NoUpload, style |-> "", theme |-> "",
     color_mode |-> "", physical_attributes |-> "", accept |-> <<>>]

CurrentPart(w) == loc[w].parts[loc[w].i]

InLoop(w) == pc[w] = "parts" /\ loc[w].i <= Len(loc[w].parts)

\* The indices of the files the handler saved that are in the directory
SavedPresent ==
    {log[k].idx : k \in {j \in 1..Len(log) : OutputName(log[j].idx) \in DOMAIN files}}

(***************************************************************************)
(* Lines 43-53: a request arrives at worker w.  FastAPI calls the handler  *)
(* only when the required photo field is there.                            *)
(***************************************************************************)
Receive(w, requests, limit) ==
    /\ pc[w] = "idle"
    /\ nreq < limit
    /\ \E r \in requests :
        IF r.photo.present
        THEN /\ req' = [req EXCEPT ![w] = r]
             /\ pc' = [pc EXCEPT ![w] = "photo"]
             /\ resp' = [resp EXCEPT ![w] = NoResponse]
        ELSE /\ req' = req
             /\ pc' = pc
             /\ resp' = [resp EXCEPT ![w] = ValidationResponse]
    /\ loc' = [loc EXCEPT ![w] = LocInit]
    /\ nreq' = nreq + 1
    /\ UNCHANGED <<dirExists, files, log, nrem>>

(***************************************************************************)
(* Lines 56-101: read and open the photo, encode it, build the prompt and  *)
(* start the content list.                                                 *)
(***************************************************************************)
ReadPhoto(w) ==
    /\ pc[w] = "photo"
    /\ IF ~req[w].photo.readable
       THEN /\ loc' = [loc EXCEPT ![w].exc = ReadError]
            /\ pc' = [pc EXCEPT ![w] = "except"]
       ELSE IF ~CanOpen(req[w].photo.data)
       THEN /\ loc' = [loc EXCEPT ![w].exc = UnidentifiedImageError]
            /\ pc' = [pc EXCEPT ![w] = "except"]
       ELSE LET user_image == ImageOpen(req[w].photo.data)
                prompt == BuildPrompt(req[w])
            IN  /\ loc' = [loc EXCEPT
                     ![w].uploaded_image_base64 = B64Encode(SavePng(user_image)),
                     ![w].prompt = prompt,
                     ![w].contents = <<TextContent(prompt), ImageContent(user_image)>>]
                /\ pc' = [pc EXCEPT ![w] = "reference"]
    /\ UNCHANGED <<dirExists, files, req, resp, log, nreq, nrem>>

(***************************************************************************)
(* Lines 104-111: add the reference image, if it can be read and opened.   *)
(***************************************************************************)
ReadReference(w) ==
    /\ pc[w] = "reference"
    /\ loc' = [loc EXCEPT ![w].contents = AppendReference(@, req[w].reference)]
    /\ pc' = [pc EXCEPT ![w] = "api"]
    /\ UNCHANGED <<dirExists, files, req, resp, log, nreq, nrem>>

(***************************************************************************)
(* Lines 113-122: the call of the generation API.  It raises, or answers   *)
(* with parts (hasParts FALSE: response.parts is None).                    *)
(***************************************************************************)
CallApi(w, outcomes) ==
    /\ pc[w] = "api"
    /\ \E o \in outcomes :
        IF o.raises
        THEN /\ loc' = [loc EXCEPT ![w].sent = Some(loc[w].contents),
                                   ![w].exc = ApiError]
             /\ pc' = [pc EXCEPT ![w] = "except"]
        ELSE /\ loc' = [loc EXCEPT ![w].sent = Some(loc[w].contents),
                                   ![w].generated_text = <<>>,
                                   ![w].generated_image_base64 = NoneVal,
                                   ![w].parts = IF o.hasParts THEN o.parts ELSE <<>>,
                                   ![w].i = 1]
             /\ pc' = [pc EXCEPT ![w] = "parts"]
    /\ UNCHANGED <<dirExists, files, req, resp, log, nreq, nrem>>

(***************************************************************************)
(* Lines 125-126: a part with text.                                        *)
(***************************************************************************)
AppendText(w) ==
    /\ InLoop(w)
    /\ CurrentPart(w).text # <<>>
    /\ loc' = [loc EXCEPT ![w].generated_text = @ \o CurrentPart(w).text,
                          ![w].i = @ + 1]
    /\ UNCHANGED <<dirExists, files, pc, req, resp, log, nreq, nrem>>

(***************************************************************************)
(* Lines 125, 128: a part with neither text nor inline data.               *)
(***************************************************************************)
SkipPart(w) ==
    /\ InLoop(w)
    /\ CurrentPart(w).text = <<>>
    /\ ~CurrentPart(w).inline
    /\ loc' = [loc EXCEPT ![w].i = @ + 1]
    /\ UNCHANGED <<dirExists, files, pc, req, resp, log, nreq, nrem>>

\* A variant of DecodeFails without the inner try: the failure reaches the
\* top-level handler.
DecodeFailsUncaught(w) ==
    /\ InLoop(w)
    /\ CurrentPart(w).text = <<>>
    /\ CurrentPart(w).inline
    /\ ~CanOpen(OrEmpty(CurrentPart(w)))
    /\ loc' = [loc EXCEPT ![w].exc = UnidentifiedImageError]
    /\ pc' = [pc EXCEPT ![w] = "except"]
    /\ UNCHANGED <<dirExists, files, req, resp, log, nreq, nrem>>

(***************************************************************************)
(* Lines 128-133, 156-158: inline data that Image.open rejects.            *)
(***************************************************************************)
DecodeFails(w) ==
    /\ InLoop(w)
    /\ CurrentPart(w).text = <<>>
    /\ CurrentPart(w).inline
    /\ ~CanOpen(OrEmpty(CurrentPart(w)))
    /\ loc' = [loc EXCEPT
         ![w].generated_image_base64 = Some(B64Encode(OrEmpty(CurrentPart(w)))),
         ![w].i = @ + 1]
    /\ UNCHANGED <<dirExists, files, pc, req, resp, log, nreq, nrem>>

(***************************************************************************)
(* Lines 128-150: inline data that opens as an image; make the directory,  *)
(* list it and compute the next index.  A ValueError of int() is caught    *)
(* at line 156 like a failure to decode.                                   *)
(***************************************************************************)
ScanDir(w) ==
    /\ InLoop(w)
    /\ CurrentPart(w).text = <<>>
    /\ CurrentPart(w).inline
    /\ CanOpen(OrEmpty(CurrentPart(w)))
    /\ dirExists' = TRUE
    /\ LET existing == Existing(Listing(files))
       IN  IF ScanRaises(existing)
           THEN /\ loc' = [loc EXCEPT
                     ![w].gen_img = ImageOpen(CurrentPart(w).data),
                     ![w].generated_image_base64 =
                         Some(B64Encode(OrEmpty(CurrentPart(w)))),
                     ![w].i = @ + 1]
                /\ pc' = pc
           ELSE /\ loc' = [loc EXCEPT
                     ![w].gen_img = ImageOpen(CurrentPart(w).data),
                     ![w].next_idx = NextIdx(existing),
                     ![w].scanAt = Len(log),
                     ![w].seen = SavedPresent]
                /\ pc' = [pc EXCEPT ![w] = "save"]
    /\ UNCHANGED <<files, req, resp, log, nreq, nrem>>

(***************************************************************************)
(* Lines 150-155: save the image under the computed name and encode it.    *)
(***************************************************************************)
SaveImage(w) ==
    /\ pc[w] = "save"
    /\ LET output_path == OutputName(loc[w].next_idx)
       IN  /\ files' = WriteFile(files, output_path, SavePng(loc[w].gen_img))
           /\ log' = Append(log, [w |-> w,
                                  idx |-> loc[w].next_idx,
                                  existed |-> output_path \in DOMAIN files,
                                  scanAt |-> loc[w].scanAt,
                                  seen |-> loc[w].seen])
    /\ loc' = [loc EXCEPT
         ![w].generated_image_base64 = Some(B64Encode(SavePng(loc[w].gen_img))),
         ![w].i = @ + 1]
    /\ pc' = [pc EXCEPT ![w] = "parts"]
    /\ UNCHANGED <<dirExists, req, resp, nreq, nrem>>

\* The handler ends: its request and its local variables are gone, the
\* response goes to the client.
Return(w, response) ==
    /\ resp' = [resp EXCEPT ![w] = response]
    /\ pc' = [pc EXCEPT ![w] = "idle"]
    /\ req' = [req EXCEPT ![w] = NoRequest]
    /\ loc' = [loc EXCEPT ![w] = LocInit]

(***************************************************************************)
(* Lines 160-186: after the last part, answer with JSON or render the      *)
(* page; rendering may raise.                                              *)
(***************************************************************************)
Respond(w) ==
    /\ pc[w] = "parts"
    /\ loc[w].i > Len(loc[w].parts)
    /\ IF WantsJson(req[w].accept)
       THEN Return(w, JsonResponse(loc[w].generated_text,
                                   loc[w].generated_image_base64))
       ELSE \E rendered \in BOOLEAN :
              IF rendered
              THEN Return(w, ResultPage(req[w], loc[w]))
              ELSE /\ resp' = resp
                   /\ req' = req
                   /\ pc' = [pc EXCEPT ![w] = "except"]
                   /\ loc' = [loc EXCEPT ![w].exc = TemplateError]
    /\ UNCHANGED <<dirExists, files, log, nreq, nrem>>

(***************************************************************************)
(* Lines 188-192: the top-level handler renders the error page; when that  *)
(* rendering raises too, the exception leaves the handler.                 *)
(***************************************************************************)
HandleException(w) ==
    /\ pc[w] = "except"
    /\ \E rendered \in BOOLEAN :
         Return(w, IF rendered THEN ErrorPage(loc[w].exc) ELSE Fault(TemplateError))
    /\ UNCHANGED <<dirExists, files, log, nreq, nrem>>

(***************************************************************************)
(* Someone else removes a file from the directory.                         *)
(***************************************************************************)
RemoveFile ==
    /\ nrem < MaxRemovals
    /\ \E f \in DOMAIN files :
         files' = [g \in DOMAIN files \ {f} |-> files[g]]
    /\ nrem' = nrem + 1
    /\ UNCHANGED <<dirExists, pc, req, loc, resp, log, nreq>>

\* The steps of the handler that take no input
Step(w) ==
    \/ ReadPhoto(w)
    \/ ReadReference(w)
    \/ AppendText(w)
    \/ SkipPart(w)
    \/ DecodeFails(w)
    \/ ScanDir(w)
    \/ SaveImage(w)
    \/ Respond(w)
    \/ HandleException(w)

-----------------------------------------------------------------------------
(***************************************************************************)
(* Directories, requests and API answers the specifications start from.    *)
(***************************************************************************)
ForeignBytes == <<0>>

Name(middle, ext) == PREFIX \o middle \o ext

NoDir == [exists |-> FALSE, names |-> {}]
Dir(names) == [exists |-> TRUE, names |-> names]

Dirs ==
    { NoDir,
      Dir({}),
      Dir({Name(<<"3">>, DOTPNG), Name(<<"7">>, DOTPNG)}),
      Dir({Name(<<"0", "0", "9">>, DOTPNG)}),
      Dir({Name(<<"9">>, <<".", "P", "N", "G">>)}),
      Dir({Name(<<"a", "b">>, DOTPNG), Name(<<>>, DOTPNG),
           Name(<<"5">>, <<".", "t", "x", "t">>), <<"n", "o", "t", "e", "s">>}),
      Dir({Name(<<"1">>, DOTPNG), Name(<<"2", "x">>, DOTPNG)}),
      Dir({Name(<<SUP2>>, DOTPNG), Name(<<"4">>, DOTPNG)}) }

Init(workers, dirs) ==
    /\ \E d \in dirs :
         /\ dirExists = d.exists
         /\ files = [n \in d.names |-> ForeignBytes]
    /\ pc = [w \in workers |-> "idle"]
    /\ req = [w \in workers |-> NoRequest]
    /\ loc = [w \in workers |-> LocInit]
    /\ resp = [w \in workers |-> NoResponse]
    /\ log = <<>>
    /\ nreq = 0
    /\ nrem = 0

Request(photo, reference, theme, style, color_mode, physical_attributes, accept) ==
    [photo |-> photo, reference |-> reference, style |-> style, theme |-> theme,
     color_mode |-> color_mode, physical_attributes |-> physical_attributes,
     accept |-> accept]

Raises == [raises |-> TRUE, hasParts |-> FALSE, parts |-> <<>>]
Answer(parts) == [raises |-> FALSE, hasParts |-> TRUE, parts |-> parts]
AnswerWithoutParts == [raises |-> FALSE, hasParts |-> FALSE, parts |-> <<>>]

AcceptJson == <<"application/json">>
AcceptHtml == <<"text/html">>

-----------------------------------------------------------------------------
(***************************************************************************)
(* Spec: two workers serve requests against one directory, from which      *)
(* files may be removed by others.                                         *)
(***************************************************************************)
Workers == {"w1", "w2"}

SpecDirs ==
    { NoDir,
      Dir({Name(<<"3">>, DOTPNG), Name(<<"9">>, <<".", "P", "N", "G">>)}) }

SpecRequests ==
    { Request(Upload(TRUE, PngBytes), NoUpload, "dragon", "", "", "", AcceptHtml) }

SpecOutcomes ==
    { Answer(<<TextPart(<<"a">>), ImagePart(JunkBytes), EmptyPart, ImagePart(PngBytes)>>),
      Answer(<<ImagePart(JpegBytes)>>) }

SpecInit == Init(Workers, SpecDirs)

Next ==
    \/ \E w \in Workers : Receive(w, SpecRequests, MaxRequests)
    \/ \E w \in Workers : CallApi(w, SpecOutcomes)
    \/ \E w \in Workers : Step(w)
    \/ RemoveFile

Spec == SpecInit /\ [][Next]_vars

-----------------------------------------------------------------------------
(***************************************************************************)
(* SpecSeq: one worker handles one request, alone with the directory; the  *)
(* photo, the Accept header, the API's answer and the directory's content  *)
(* vary.                                                                   *)
(***************************************************************************)
MaxParts == 2

PartKinds ==
    { TextPart(<<"a">>), TextPart(<<"b">>), ImagePart(PngBytes), ImagePart(JpegBytes),
      ImagePart(JunkBytes), NoDataPart, EmptyPart }

RECURSIVE SeqsUpTo(_, _)
SeqsUpTo(S, n) ==
    IF n = 0 THEN {<<>>}
    ELSE LET shorter == SeqsUpTo(S, n - 1)
         IN  shorter \cup {Append(q, x) : q \in {t \in shorter : Len(t) = n - 1}, x \in S}

SeqOutcomes ==
    {Raises, AnswerWithoutParts} \cup {Answer(ps) : ps \in SeqsUpTo(PartKinds, MaxParts)}

SeqPhotos ==
    { NoUpload, Upload(FALSE, PngBytes), Upload(TRUE, JunkBytes),
      Upload(TRUE, PngBytes), Upload(TRUE, JpegBytes) }

SeqAccepts ==
    { <<>>, AcceptHtml, AcceptJson,
      <<"text/html", ",", "application/json", ";q=0.9">>,
      <<"Application/JSON">> }

SeqRequests ==
    { Request(photo, NoUpload, "dragon", "watercolor", "", "forearm", accept) :
        photo \in SeqPhotos, accept \in SeqAccepts }

SeqInit == Init({"w1"}, Dirs)

SeqNext ==
    \/ Receive("w1", SeqRequests, 1)
    \/ CallApi("w1", SeqOutcomes)
    \/ Step("w1")

SpecSeq == SeqInit /\ [][SeqNext]_vars

-----------------------------------------------------------------------------
(***************************************************************************)
(* SpecPrompt: one worker handles one request; the form fields and the     *)
(* reference upload vary.                                                  *)
(***************************************************************************)
PromptReferences ==
    { NoUpload, Upload(FALSE, PngBytes), Upload(TRUE, JunkBytes),
      Upload(TRUE, <<>>), Upload(TRUE, JpegBytes) }

PromptRequests ==
    { Request(Upload(TRUE, PngBytes), reference, theme, style, color_mode,
              physical_attributes, AcceptJson) :
        reference \in PromptReferences,
        theme \in {"", "dragon"},
        style \in {"", "watercolor"},
        color_mode \in {"", "black and white"},
        physical_attributes \in {"", " "} }

PromptOutcomes ==
    { Raises,
      Answer(<<TextPart(<<"a">>), ImagePart(JunkBytes), EmptyPart, ImagePart(PngBytes)>>) }

PromptInit == Init({"w1"}, {Dir({})})

PromptNext ==
    \/ Receive("w1", PromptRequests, 1)
    \/ CallApi("w1", PromptOutcomes)
    \/ Step("w1")

SpecPrompt == PromptInit /\ [][PromptNext]_vars

-----------------------------------------------------------------------------
(***************************************************************************)
(* The claims about the shared directory, checked under Spec.              *)
(***************************************************************************)

\* C1: every save of a decoded image part goes to a name that is not in the
\* directory at the moment of the save, in any interleaving of requests: no
\* generated file is ever overwritten by the handler.
C1_SaveNeverOverwrites == \A k \in 1..Len(log) : ~log[k].existed

\* C2: nothing guards the save.  A worker that leaves "save" has written its
\* image under the name it computed from its own listing, whether or not
\* another request created that file in the meantime; when the file was
\* there, the directory has the same names as before and the file holds the
\* later writer's image.
C2_SaveIsUnguarded ==
    [][\A w \in DOMAIN pc :
         (pc[w] = "save" /\ pc'[w] # "save") =>
            LET name == OutputName(loc[w].next_idx)
            IN  /\ name \in DOMAIN files'
                /\ files'[name] = PngSig \o loc[w].gen_img.pixels
                /\ Len(log') = Len(log) + 1
                /\ (name \in DOMAIN files => DOMAIN files' = DOMAIN files)]_vars

\* C2's case: two requests at different workers both listed the directory
\* before either saved, computed the same index, and the later save found
\* the earlier request's file and replaced it.
C2_RaceReached ==
    /\ nrem = 0
    /\ \E i, j \in 1..Len(log) :
         /\ i < j
         /\ log[i].w # log[j].w
         /\ log[i].idx = log[j].idx
         /\ log[i].scanAt < i
         /\ log[j].scanAt < i
         /\ ~log[i].existed
         /\ log[j].existed

-----------------------------------------------------------------------------
(***************************************************************************)
(* The claims about one request, checked under SpecSeq.                    *)
(***************************************************************************)
MaxOf(S) == CHOOSE m \in S : \A x \in S : x <= m

\* The N of the files named generated_image<N><ext>, N decimal digits,
\* where <ext> is ".png" as written or, with anyCase, in any letter case
IndicesIn(names, anyCase) ==
    { PyInt(Middle(f)) :
        f \in { g \in names :
                  /\ StartsWith(g, PREFIX)
                  /\ EndsWith(IF anyCase THEN Lower(g) ELSE g, DOTPNG)
                  /\ IntAccepts(Middle(g)) } }

IndexAfter(names, anyCase) ==
    IF IndicesIn(names, anyCase) = {} THEN 1 ELSE MaxOf(IndicesIn(names, anyCase)) + 1

SavedAs(w, anyCase) ==
    (pc[w] = "save" /\ pc'[w] # "save") =>
        DOMAIN files' =
            DOMAIN files \cup {PREFIX \o Str(IndexAfter(DOMAIN files, anyCase)) \o DOTPNG}

\* C3 as stated: the file of a decoded image part is saved under the index
\* (largest N of the files named generated_image<N>.png, N all digits) + 1,
\* or 1 when there is none; other files are ignored.
C3_IndexIsMaxPlusOne == [][\A w \in DOMAIN pc : SavedAs(w, FALSE)]_vars

\* C3 as amended: the same, with the extension .png matched in any letter
\* case (generated_image9.PNG counts as index 9).
C3_IndexIsMaxPlusOneAnyCase == [][\A w \in DOMAIN pc : SavedAs(w, TRUE)]_vars

\* C3's case: the directory held generated_image9.PNG and the image was
\* saved as generated_image10.png.
C3_SavedAfterUpperCaseName ==
    /\ Name(<<"9">>, <<".", "P", "N", "G">>) \in DOMAIN files
    /\ Name(<<"1", "0">>, DOTPNG) \in DOMAIN files
    /\ Len(log) = 1

RawBytes(part) == IF part.hasData THEN part.data ELSE <<>>

CarriesImage(part) == part.text = <<>> /\ part.inline

IsErrorPage(r, text) ==
    /\ r.kind = "html"
    /\ r.error = [some |-> TRUE, val |-> text]
    /\ r.result = [some |-> FALSE]

\* C5 as stated: no request ends in a fault; a request without a photo and
\* every failure inside the handler end with the index page whose error is
\* the exception's text and whose result is none.
C5_AlwaysErrorPage ==
    [][\A w \in DOMAIN pc :
         /\ resp'[w].kind # "fault"
         /\ (pc[w] = "except" /\ pc'[w] = "idle")
                => IsErrorPage(resp'[w], loc[w].exc.msg)
         /\ (pc[w] = "idle" /\ pc'[w] = "idle" /\ nreq' = nreq + 1)
                => (resp'[w].kind = "html" /\ resp'[w].error.some)]_vars

\* C5 as amended: a request without a photo is answered by the framework
\* with status 422 and the handler does not run; a failure inside the
\* handler (photo unreadable or not decodable, the API raising, the result
\* page failing to render) ends, whatever the Accept header, with the index
\* page whose error is the exception's text and whose result is none, or,
\* when rendering that page raises too, with the exception leaving the
\* handler.
C5_ErrorPageOrFault ==
    [][\A w \in DOMAIN pc :
         /\ (pc[w] = "except" /\ pc'[w] = "idle")
                => /\ loc[w].exc.type \in {"OSError", "UnidentifiedImageError",
                                           "APIError", "TemplateError"}
                   /\ \/ IsErrorPage(resp'[w], loc[w].exc.msg)
                      \/ resp'[w].kind = "fault"
         /\ (pc[w] = "except") => pc'[w] \in {"except", "idle"}
         /\ (pc[w] = "idle" /\ pc'[w] = "idle" /\ nreq' = nreq + 1)
                => (resp'[w].kind = "validation" /\ resp'[w].status = 422
                    /\ loc'[w].sent = [some |-> FALSE])
         /\ (pc[w] # "except" /\ pc'[w] = "idle" /\ pc[w] # "idle")
                => resp'[w].kind \in {"json", "html"}]_vars

\* C5's case: the API raised and the response is the error page with the
\* exception's text.
C5_ApiErrorShown ==
    \E w \in DOMAIN pc :
        /\ pc[w] = "idle"
        /\ IsErrorPage(resp[w], "generate_content failed")

\* C6: a part whose inline bytes do not decode does not end the request:
\* the loop goes on to the next part, image_base64 is the base64 encoding
\* of exactly the raw bytes (of no bytes when there are none), and the
\* directory is neither created nor changed.
C6_UndecodableFallsBack ==
    [][\A w \in DOMAIN pc :
         ( /\ InLoop(w)
           /\ CarriesImage(CurrentPart(w))
           /\ ~CanOpen(RawBytes(CurrentPart(w)))
           /\ loc'[w] # loc[w] )
         => /\ pc'[w] = "parts"
            /\ loc'[w].exc = loc[w].exc
            /\ loc'[w].i = loc[w].i + 1
            /\ loc'[w].generated_image_base64 =
                   [some |-> TRUE, val |-> B64Encode(RawBytes(CurrentPart(w)))]
            /\ files' = files
            /\ dirExists' = dirExists
            /\ log' = log]_vars

\* C6's case: the only image part was the undecodable byte 7 and the JSON
\* response carries "Bw==", with nothing saved.
C6_RawBytesReturned ==
    \E w \in DOMAIN pc :
        /\ resp[w].kind = "json"
        /\ resp[w].image_base64 = [some |-> TRUE, val |-> <<"B", "w", "=", "=">>]
        /\ log = <<>>
        /\ ~dirExists

RECURSIVE TextOf(_)
TextOf(parts) ==
    IF parts = <<>> THEN <<>>
    ELSE (IF Head(parts).text # <<>> THEN Head(parts).text ELSE <<>>) \o TextOf(Tail(parts))

ImageParts(parts) == {k \in 1..Len(parts) : CarriesImage(parts[k])}

\* The base64 strings of a part's image: of its bytes, or of its PNG encoding
EncodingsOf(part) ==
    {B64Encode(RawBytes(part))}
    \cup (IF CanOpen(RawBytes(part))
          THEN {B64Encode(PngSig \o SubSeq(RawBytes(part), 3, Len(RawBytes(part))))}
          ELSE {})

ImageAnswered(parts, image) ==
    IF ImageParts(parts) = {} THEN image = [some |-> FALSE]
    ELSE image.some /\ image.val \in EncodingsOf(parts[MaxOf(ImageParts(parts))])

\* C8: a request that ends without an error is answered with JSON exactly
\* when its Accept header contains application/json: generated_text is the
\* texts of the parts in order ("" without any), image_base64 the image's
\* base64 string, null when no part carried an image.  Otherwise the page is
\* rendered with the uploaded image, the generated image or null, and the
\* style, theme, color_mode and size fields.
C8_JsonIffAccepted ==
    [][\A w \in DOMAIN pc :
         (pc[w] = "parts" /\ pc'[w] = "idle") =>
            IF \E k \in 1..Len(req[w].accept) : req[w].accept[k] = "application/json"
            THEN /\ resp'[w].kind = "json"
                 /\ resp'[w].generated_text = TextOf(loc[w].parts)
                 /\ ImageAnswered(loc[w].parts, resp'[w].image_base64)
            ELSE /\ resp'[w].kind = "html"
                 /\ resp'[w].error = [some |-> FALSE]
                 /\ resp'[w].result.some
                 /\ resp'[w].result.val.uploaded_image_base64 =
                        B64Encode(PngSig \o SubSeq(req[w].photo.data, 3,
                                                   Len(req[w].photo.data)))
                 /\ ImageAnswered(loc[w].parts,
                                  resp'[w].result.val.generated_image_base64)
                 /\ resp'[w].result.val.style = req[w].style
                 /\ resp'[w].result.val.theme = req[w].theme
                 /\ resp'[w].result.val.color_mode = req[w].color_mode
                 /\ resp'[w].result.val.size = req[w].physical_attributes]_vars

\* C8's case: the model returned only an image part and the JSON response
\* is {"generated_text": "", "image_base64": "iVAB"}.
C8_JsonWithImageOnly ==
    \E w \in DOMAIN pc :
        /\ resp[w].kind = "json"
        /\ resp[w].generated_text = <<>>
        /\ resp[w].image_base64 = [some |-> TRUE, val |-> <<"i", "V", "A", "B">>]
        /\ Len(log) = 1

DecodableParts(parts) ==
    {k \in ImageParts(parts) : CanOpen(RawBytes(parts[k]))}

\* C10: alone with the directory, a request whose response has k image
\* parts that decode has created, when its loop ends, k files with
\* consecutive indices in part order, none of them there before; and
\* image_base64 is that of the last part that carried an image.
C10_OneFilePerDecodedPart ==
    \A w \in DOMAIN pc :
        (pc[w] = "parts" /\ loc[w].i > Len(loc[w].parts)) =>
            /\ Len(log) = Cardinality(DecodableParts(loc[w].parts))
            /\ \A j \in 1..Len(log) :
                 /\ log[j].idx = log[1].idx + j - 1
                 /\ ~log[j].existed
                 /\ OutputName(log[j].idx) \in DOMAIN files
            /\ ImageAnswered(loc[w].parts, loc[w].generated_image_base64)

-----------------------------------------------------------------------------
(***************************************************************************)
(* The claims about the prompt and the content list, checked under         *)
(* SpecPrompt.                                                             *)
(***************************************************************************)
LineIf(cond, line) == IF cond THEN <<line>> ELSE <<>>

\* The lines of the prompt as the claim lists them, ending with `trailer`
ListedLines(r, trailer) ==
    PreambleLines
    \o LineIf(r.reference.present, ReferenceLine)
    \o LineIf(r.theme # "" /\ r.reference.present, ThemeSupplementaryLine(r.theme))
    \o LineIf(r.theme # "" /\ ~r.reference.present, ThemeGeneralLine(r.theme))
    \o LineIf(r.style # "", StyleLine(r.style))
    \o LineIf(r.color_mode # "", ColorModeLine(r.color_mode))
    \o LineIf(r.physical_attributes # "", PhysicalAttributesLine(r.physical_attributes))
    \o trailer

\* C7 as stated: the prompt is the newline-joined sequence of the preamble,
\* the reference line iff a reference is uploaded, the theme line iff theme
\* is non-empty (supplementary wording with a reference, general wording
\* without), the style, color-mode and physical-attributes lines iff their
\* fields are non-empty, and the two trailing instructions.
C7_PromptIsListedLines ==
    \A w \in DOMAIN pc :
        loc[w].prompt # <<>> =>
            loc[w].prompt = JoinLines(ListedLines(req[w], <<NoTextLine, NoModifyLine>>))

\* C7 as amended: the same, with one empty line between the last field line
\* and the two trailing instructions.
C7_PromptIsListedLinesAfterBlank ==
    \A w \in DOMAIN pc :
        loc[w].prompt # <<>> =>
            loc[w].prompt =
                JoinLines(ListedLines(req[w], << <<>>, NoTextLine, NoModifyLine >>))

\* C7's case: a reference, a theme and a physical_attributes of one blank,
\* no style and no color mode.
C7_ReferenceThemeAndSize ==
    \E w \in DOMAIN pc :
        loc[w].prompt =
            <<"You generate images of tattoos overlayed on skin of submitted images.", "\n",
              "Based on the provided input data, create a tattoo design that fits naturally on the body part shown.", "\n",
              "Input data:", "\n",
              "- Photo: An attached image of a body part (can be a hand, arm, leg, face, etc.)", "\n",
              "- Reference Image: An attached image that serves as the inspiration for the tattoo design. Use it as the primary reference for style/subject where appropriate.", "\n",
              "- Theme (supplementary details for the tattoo based off the chosen reference image): ", "dragon", "\n",
              "- Physical Attributes (size/placement): ", " ", "\n",
              "\n",
              "Do not generate any text in your response. Your response should only consist of a generated image.", "\n",
              "Do not modify the original image except to add the tattoo design.">>

\* The image Image.open makes of an upload's bytes
ImageOf(upload) ==
    [format |-> IF SubSeq(upload.data, 1, 2) = <<137, 80>> THEN "PNG" ELSE "JPEG",
     pixels |-> SubSeq(upload.data, 3, Len(upload.data))]

Loadable(upload) ==
    /\ upload.present
    /\ upload.readable
    /\ Len(upload.data) >= 2
    /\ SubSeq(upload.data, 1, 2) \in {<<137, 80>>, <<255, 216>>}

\* C9: the API is called with [prompt, photo], followed by the reference
\* image iff a reference was uploaded, read and decoded; a reference that
\* cannot be read or decoded raises nothing: the handler goes on to the
\* call with [prompt, photo].
C9_ContentsSent ==
    [][\A w \in DOMAIN pc :
         /\ (pc[w] = "reference" /\ pc'[w] # "reference")
                => (pc'[w] = "api" /\ loc'[w].exc.type = "none")
         /\ (pc[w] = "api" /\ pc'[w] # "api")
                => /\ loc'[w].sent.some
                   /\ loc'[w].sent.val =
                        << [kind |-> "text", text |-> loc[w].prompt, image |-> NoImage],
                           [kind |-> "image", text |-> <<>>, image |-> ImageOf(req[w].photo)] >>
                        \o LineIf(Loadable(req[w].reference),
                                  [kind |-> "image", text |-> <<>>,
                                   image |-> ImageOf(req[w].reference)])]_vars

\* C9's case: a reference was uploaded that does not decode, the API was
\* called with two items and the handler is processing its answer.
C9_BadReferenceSkipped ==
    \E w \in DOMAIN pc :
        /\ pc[w] = "parts"
        /\ req[w].reference.present
        /\ req[w].reference.readable
        /\ ~Loadable(req[w].reference)
        /\ loc[w].sent.some
        /\ Len(loc[w].sent.val) = 2

=============================================================================
